---- MODULE Spec2Model ----
(***************************************************************************)
(* A model of the SVG validator component (src/src/app/page.tsx).          *)
(*                                                                         *)
(* Text is a sequence of lexical tokens: "<rect", " ", "data-zoneid=",     *)
(* "\"", "a", "/>", "\n", ...  A JavaScript string operation is modelled   *)
(* on that sequence: split("\n") cuts at the "\n" tokens, includes() is    *)
(* the contiguous-subsequence test, replace(/&quote/g, '"') rewrites the   *)
(* token "&quote".  The token alphabet is chosen so that the same          *)
(* characters always tokenize the same way (no token is a proper prefix of *)
(* another token that can follow "<"), which makes the token-level         *)
(* operations agree with the character-level ones.                         *)
(***************************************************************************)
EXTENDS Integers, Sequences, FiniteSets, TLC

VARIABLES
    errors,            \* useState<ValidationError[]>([])
    svgContent,        \* useState<string>("")
    editorContent,     \* useState<string>("")
    showSuccessModal,  \* useState(false)
    editorText,        \* the text held by the <Editor> widget (what the user sees and edits)
    reading,           \* FileReader loads started and not yet delivered
    download,          \* content of the last file saveToFile produced
    origin,            \* history: for each entry of errors, the element and attribute it was pushed for
    lastRun,           \* history: the last validateSVG call (its argument, whether it threw, whether it raised the modal)
    firstRun           \* history: the first validateSVG call of the session and the error list it left

vars == <<errors, svgContent, editorContent, showSuccessModal, editorText,
          reading, download, origin, lastRun, firstRun>>

-----------------------------------------------------------------------------
(* Program constants                                                       *)

graphicTags == <<"path", "polygon", "rect", "circle", "ellipse", "line", "polyline">>

attributes == <<"data-categoryid", "data-targetviewbox", "data-zoneid">>

-----------------------------------------------------------------------------
(* Tokens                                                                  *)

NL == "\n"
SP == " "
DQ == "\""
SQ == "'"
GT == ">"
SelfClose == "/>"
AmpQuote == "&quote"
SvgNS == "http://www.w3.org/2000/svg"

Range(s) == {s[i] : i \in 1..Len(s)}

TagNames == Range(graphicTags) \cup {"svg", "g", "parsererror"}
AttrNames == Range(attributes) \cup {"xmlns"}

OpenTok(tag) == "<" \o tag
CloseTok(tag) == "</" \o tag \o ">"
AttrTok(name) == name \o "="

IsOpen(tok) == \E tag \in TagNames : tok = OpenTok(tag)
IsClose(tok) == \E tag \in TagNames : tok = CloseTok(tag)
IsAttrTok(tok) == \E name \in AttrNames : tok = AttrTok(name)
TagOfOpen(tok) == CHOOSE tag \in TagNames : tok = OpenTok(tag)
TagOfClose(tok) == CHOOSE tag \in TagNames : tok = CloseTok(tag)
NameOfAttr(tok) == CHOOSE name \in AttrNames : tok = AttrTok(name)

-----------------------------------------------------------------------------
(* String operations of the host language, on token sequences              *)

RECURSIVE Flatten(_)
Flatten(ss) == IF ss = <<>> THEN <<>> ELSE Head(ss) \o Flatten(Tail(ss))

\* svg.replace(/&quote/g, '"')
ReplaceAmpQuote(svg) == [i \in 1..Len(svg) |-> IF svg[i] = AmpQuote THEN DQ ELSE svg[i]]

\* index of the first "\n" at or after position i, Len(s)+1 when there is none
RECURSIVE NextNL(_, _)
NextNL(s, i) == IF i > Len(s) \/ s[i] = NL THEN i ELSE NextNL(s, i + 1)

\* s.split("\n")
RECURSIVE Split(_)
Split(s) ==
    LET n == NextNL(s, 1)
    IN  IF n > Len(s) THEN <<s>>
        ELSE <<SubSeq(s, 1, n - 1)>> \o Split(SubSeq(s, n + 1, Len(s)))

\* line.includes(part)
Includes(line, part) ==
    \E k \in 0..(Len(line) - Len(part)) : SubSeq(line, k + 1, k + Len(part)) = part

\* lines.findIndex(pred), 0-based, -1 when no line matches
RECURSIVE FindIndexFrom(_, _, _)
FindIndexFrom(lines, part, i) ==
    IF i > Len(lines) THEN -1
    ELSE IF Includes(lines[i], part) THEN i - 1
    ELSE FindIndexFrom(lines, part, i + 1)

FindIndex(lines, part) == FindIndexFrom(lines, part, 1)

IsSpace(c) == c = SP \/ c = NL

\* attrValue.trim()
RECURSIVE TrimStart(_)
TrimStart(v) == IF v # <<>> /\ IsSpace(Head(v)) THEN TrimStart(Tail(v)) ELSE v

RECURSIVE TrimEnd(_)
TrimEnd(v) ==
    IF v # <<>> /\ IsSpace(v[Len(v)]) THEN TrimEnd(SubSeq(v, 1, Len(v) - 1)) ELSE v

\* faulty variant of Trim: only leading whitespace is removed
TrimStartOnly(v) == TrimStart(v)

Trim(v) == TrimEnd(TrimStart(v))

\* /&quote/.test(attrValue): the value's characters contain "&quote"
TestAmpQuote(v) ==
    \E i \in 1..Len(v) :
        \/ v[i] = AmpQuote
        \/ v[i] = "&" /\ i < Len(v) /\ v[i + 1] = "quote"

-----------------------------------------------------------------------------
(* The XML parser: parser.parseFromString(fixedSvg, "image/svg+xml").      *)
(* A parsed document is the sequence of its nodes' events in document      *)
(* order: [k |-> "start", tag, ns, attrs], [k |-> "text", data],           *)
(* [k |-> "end", tag].  A start event also records where the element was   *)
(* written (from, to: token positions of the text), which no operation of  *)
(* the program reads.  A text that is not well-formed gives, as in the     *)
(* browser, a document of one parsererror element holding the error text.  *)

Failure(why) == [ok |-> FALSE, error |-> why]

\* the character data a token stands for inside an attribute value
AttrData(tok) ==
    CASE tok = "&amp;" -> "&"
      [] tok = "&quot;" -> DQ
      [] tok = NL -> SP
      [] OTHER -> tok

\* the character data a token stands for in element content
TextData(tok) ==
    CASE tok = "&amp;" -> "&"
      [] tok = "&quot;" -> DQ
      [] OTHER -> tok

\* the attribute value that starts at toks[i], after the opening quote q
RECURSIVE ParseValue(_, _, _, _)
ParseValue(toks, i, q, acc) ==
    IF i > Len(toks) THEN Failure("attribute value is not closed")
    ELSE IF toks[i] = q THEN [ok |-> TRUE, next |-> i + 1, value |-> acc]
    ELSE IF IsOpen(toks[i]) \/ IsClose(toks[i])
         THEN Failure("'<' in attribute value")
    ELSE IF toks[i] = AmpQuote THEN Failure("entity reference without ';'")
    ELSE ParseValue(toks, i + 1, q, Append(acc, AttrData(toks[i])))

HasAttr(attrs, name) == \E j \in 1..Len(attrs) : attrs[j].name = name

\* the attributes and the end of the start tag whose name token precedes toks[i]
RECURSIVE ParseAttrs(_, _, _, _)

\* an attribute name at toks[i] whose quoted value v has been read
AfterValue(toks, i, attrs, v) ==
    IF ~v.ok THEN v
    ELSE ParseAttrs(toks, v.next,
                    Append(attrs, [name |-> NameOfAttr(toks[i]), value |-> v.value]), FALSE)

ParseAttrs(toks, i, attrs, ws) ==
    IF i > Len(toks) THEN Failure("start tag is not closed")
    ELSE IF IsSpace(toks[i]) THEN ParseAttrs(toks, i + 1, attrs, TRUE)
    ELSE IF toks[i] = GT
         THEN [ok |-> TRUE, next |-> i + 1, attrs |-> attrs, empty |-> FALSE]
    ELSE IF toks[i] = SelfClose
         THEN [ok |-> TRUE, next |-> i + 1, attrs |-> attrs, empty |-> TRUE]
    ELSE IF ~IsAttrTok(toks[i]) THEN Failure("attribute name expected")
    ELSE IF ~ws THEN Failure("attributes need whitespace between them")
    ELSE IF HasAttr(attrs, NameOfAttr(toks[i])) THEN Failure("attribute redefined")
    ELSE IF i + 1 > Len(toks) \/ toks[i + 1] \notin {DQ, SQ}
         THEN Failure("attribute value must be quoted")
    ELSE AfterValue(toks, i, attrs, ParseValue(toks, i + 2, toks[i + 1], <<>>))

AttrValueOf(attrs, name) == attrs[CHOOSE j \in 1..Len(attrs) : attrs[j].name = name].value

\* the namespace of an element: its own xmlns declaration, else its parent's
NamespaceOf(attrs, stack) ==
    IF HasAttr(attrs, "xmlns") THEN AttrValueOf(attrs, "xmlns")
    ELSE IF stack = <<>> THEN <<>>
    ELSE stack[Len(stack)].ns

\* The parser's state between two tokens: next, the position of the next token;
\* stack, the open elements, innermost last; events, the nodes parsed so far;
\* rootDone, the document element has been closed.
ParserState(next, stack, events, rootDone) ==
    [ok |-> TRUE, next |-> next, stack |-> stack, events |-> events, rootDone |-> rootDone]

\* a start tag at position i whose attributes a have been read
StartTag(toks, i, st, a) ==
    IF ~a.ok THEN a
    ELSE IF a.empty
    THEN ParserState(a.next, st.stack,
                     st.events \o << [k |-> "start", tag |-> TagOfOpen(toks[i]),
                                      ns |-> NamespaceOf(a.attrs, st.stack), attrs |-> a.attrs,
                                      from |-> i, to |-> a.next - 1],
                                     [k |-> "end", tag |-> TagOfOpen(toks[i])] >>,
                     st.stack = <<>>)
    ELSE ParserState(a.next,
                     Append(st.stack, [tag |-> TagOfOpen(toks[i]),
                                       ns |-> NamespaceOf(a.attrs, st.stack),
                                       ev |-> Len(st.events) + 1]),
                     Append(st.events, [k |-> "start", tag |-> TagOfOpen(toks[i]),
                                        ns |-> NamespaceOf(a.attrs, st.stack),
                                        attrs |-> a.attrs, from |-> i, to |-> a.next - 1]),
                     FALSE)

\* an end tag at position i
EndTag(toks, i, st) ==
    IF st.stack = <<>> \/ st.stack[Len(st.stack)].tag # TagOfClose(toks[i])
    THEN Failure("closing tag does not match")
    ELSE ParserState(i + 1, SubSeq(st.stack, 1, Len(st.stack) - 1),
                     Append([st.events EXCEPT ![st.stack[Len(st.stack)].ev].to = i],
                            [k |-> "end", tag |-> TagOfClose(toks[i])]),
                     Len(st.stack) = 1)

\* character data at position i
CharData(toks, i, st) ==
    IF st.stack = <<>>
    THEN IF IsSpace(toks[i]) THEN ParserState(i + 1, st.stack, st.events, st.rootDone)
         ELSE Failure("text outside the document element")
    ELSE IF toks[i] = AmpQuote THEN Failure("entity reference without ';'")
    ELSE ParserState(i + 1, st.stack,
                     Append(st.events, [k |-> "text", data |-> TextData(toks[i])]), FALSE)

\* the parser consumes what starts at position i
ParseStep(toks, i, st) ==
    IF IsOpen(toks[i])
    THEN IF st.rootDone THEN Failure("extra content after the document element")
         ELSE StartTag(toks, i, st, ParseAttrs(toks, i + 1, <<>>, FALSE))
    ELSE IF IsClose(toks[i]) THEN EndTag(toks, i, st)
    ELSE CharData(toks, i, st)

RECURSIVE ParseContent(_, _)
ParseContent(toks, st) ==
    IF ~st.ok THEN st
    ELSE IF st.next > Len(toks)
    THEN IF st.stack # <<>> THEN Failure("element is not closed")
         ELSE IF ~st.rootDone THEN Failure("no element found")
         ELSE st
    ELSE ParseContent(toks, ParseStep(toks, st.next, st))

ParseDocument(text) == ParseContent(text, ParserState(1, <<>>, <<>>, FALSE))

\* the document the browser builds for a text that is not well-formed
ErrorDocument(why) ==
    << [k |-> "start", tag |-> "parsererror", ns |-> <<>>, attrs |-> <<>>, from |-> 0, to |-> 0],
       [k |-> "text", data |-> why],
       [k |-> "end", tag |-> "parsererror"] >>

\* the document of a parse result
DocumentOf(r) == IF r.ok THEN r.events ELSE ErrorDocument(r.error)

\* parser.parseFromString(text, "image/svg+xml")
parseFromString(text) == DocumentOf(ParseDocument(text))

\* the text is well-formed XML (the parser itself reports no error)
WellFormed(text) == ParseDocument(text).ok

-----------------------------------------------------------------------------
(* DOM operations on a parsed document                                     *)

\* the position of the end event matching the start event at p
RECURSIVE MatchFrom(_, _, _)
MatchFrom(doc, j, depth) ==
    IF doc[j].k = "start" THEN MatchFrom(doc, j + 1, depth + 1)
    ELSE IF doc[j].k = "end"
         THEN IF depth = 1 THEN j ELSE MatchFrom(doc, j + 1, depth - 1)
    ELSE MatchFrom(doc, j + 1, depth)

EndOf(doc, p) == MatchFrom(doc, p + 1, 1)

\* doc.getElementsByTagName(tag): the positions of its elements, in document order
getElementsByTagName(doc, tag) ==
    SelectSeq([j \in 1..Len(doc) |-> j], LAMBDA j : doc[j].k = "start" /\ doc[j].tag = tag)

Null == [null |-> TRUE, value |-> <<>>]

\* element.getAttribute(attr)
getAttribute(el, attr) ==
    IF HasAttr(el.attrs, attr)
    THEN [null |-> FALSE, value |-> AttrValueOf(el.attrs, attr)]
    ELSE Null

\* doc.querySelector("parsererror"): the first such element, 0 for null
querySelector(doc, tag) ==
    LET found == getElementsByTagName(doc, tag)
    IN  IF found = <<>> THEN 0 ELSE found[1]

RECURSIVE ConcatStrings(_)
ConcatStrings(ss) == IF ss = <<>> THEN "" ELSE Head(ss) \o ConcatStrings(Tail(ss))

\* element.textContent
textContent(doc, p) ==
    LET inside == SelectSeq(SubSeq(doc, p, EndOf(doc, p)), LAMBDA e : e.k = "text")
    IN  ConcatStrings([j \in 1..Len(inside) |-> inside[j].data])

\* XML serialization of attribute and text data
EscapeAttr(c) ==
    CASE c = "&" -> "&amp;"
      [] c = DQ -> "&quot;"
      [] c = GT -> "&gt;"
      [] c = SelfClose -> "/&gt;"
      [] OTHER -> c

EscapeText(c) ==
    CASE c = "&" -> "&amp;"
      [] c = GT -> "&gt;"
      [] c = SelfClose -> "/&gt;"
      [] OTHER -> c

SerializeAttr(name, value) ==
    <<SP, AttrTok(name), DQ>> \o [j \in 1..Len(value) |-> EscapeAttr(value[j])] \o <<DQ>>

\* the start tag of an element; the serialized root declares its namespace
\* first unless an attribute of its own does
SerializeStart(el, top, empty) ==
    <<OpenTok(el.tag)>>
    \o (IF top /\ el.ns # <<>> /\ ~HasAttr(el.attrs, "xmlns")
        THEN SerializeAttr("xmlns", el.ns) ELSE <<>>)
    \o Flatten([j \in 1..Len(el.attrs) |-> SerializeAttr(el.attrs[j].name, el.attrs[j].value)])
    \o (IF empty THEN <<SelfClose>> ELSE <<GT>>)

\* element.outerHTML of the element that starts at p
outerHTML(doc, p) ==
    LET last == EndOf(doc, p)
        Node(j) ==
            CASE doc[j].k = "start" -> SerializeStart(doc[j], j = p, doc[j + 1].k = "end")
              [] doc[j].k = "text" -> <<EscapeText(doc[j].data)>>
              [] OTHER -> IF doc[j - 1].k = "start" THEN <<>> ELSE <<CloseTok(doc[j].tag)>>
    IN  Flatten([j \in 1..(last - p + 1) |-> Node(p + j - 1)])

-----------------------------------------------------------------------------
(* validateSVG                                                             *)

ValidationError(tag, snippet, message, line) ==
    [tag |-> tag, snippet |-> snippet, message |-> message, line |-> line]

MissingMessage(tag, attr) == "<" \o tag \o "> missing attribute: " \o attr

SpacesMessage(tag, attr) ==
    "<" \o tag \o "> attribute \"" \o attr \o "\" has leading or trailing spaces."

InvalidMessage(tag, attr) ==
    "<" \o tag \o "> attribute \"" \o attr \o "\" contains invalid characters like \"&quote\"."

\* faulty variant of IsFalsy: only a missing attribute counts, not an empty one
IsNullOnly(attrValue) == attrValue.null

\* !attrValue: null or the empty string
IsFalsy(attrValue) == attrValue.null \/ attrValue.value = <<>>

\* the body of attributes.forEach for one attribute whose value is attrValue:
\* the errors it pushes, each with the element and attribute it is pushed for
CheckAttribute(p, tag, snippet, line, attr, attrValue) ==
    LET pushed(message) ==
            [err |-> ValidationError(tag, snippet, message, line), elem |-> p, attr |-> attr]
    IN  IF IsFalsy(attrValue) THEN <<pushed(MissingMessage(tag, attr))>>
        ELSE (IF attrValue.value # Trim(attrValue.value)
              THEN <<pushed(SpacesMessage(tag, attr))>> ELSE <<>>)
             \o (IF TestAmpQuote(attrValue.value)
                 THEN <<pushed(InvalidMessage(tag, attr))>> ELSE <<>>)

\* faulty variant of LineIndex: the whole snippet is searched for, not its first line
LineIndexWholeSnippet(lines, snippet) == FindIndex(lines, snippet)

\* lines.findIndex((line) => line.includes(firstLine)) for the snippet's first line
LineIndex(lines, snippet) == FindIndex(lines, Split(snippet)[1])

\* attributes.forEach for the element at p, whose outerHTML is snippet
CheckAttributes(doc, lines, tag, p, snippet) ==
    Flatten([a \in 1..Len(attributes) |->
                CheckAttribute(p, tag, snippet, LineIndex(lines, snippet) + 1,
                               attributes[a], getAttribute(doc[p], attributes[a]))])

\* the body of Array.from(elements).forEach for the element at p
CheckElement(doc, lines, tag, p) == CheckAttributes(doc, lines, tag, p, outerHTML(doc, p))

\* faulty variant of CheckElements: the elements are visited last to first
CheckElementsReversed(doc, lines, tag, elements) ==
    Flatten([e \in 1..Len(elements) |->
                CheckElement(doc, lines, tag, elements[Len(elements) + 1 - e])])

\* Array.from(elements).forEach
CheckElements(doc, lines, tag, elements) ==
    Flatten([e \in 1..Len(elements) |-> CheckElement(doc, lines, tag, elements[e])])

\* the body of graphicTags.forEach for one tag
CheckTag(doc, lines, tag) == CheckElements(doc, lines, tag, getElementsByTagName(doc, tag))

\* newErrors after graphicTags.forEach
ScanDocument(doc, lines) ==
    Flatten([t \in 1..Len(graphicTags) |-> CheckTag(doc, lines, graphicTags[t])])

\* the catch block: setErrors of the one synthetic error
Caught(message) ==
    [threw |-> TRUE,
     errors |-> <<ValidationError("N/A", <<>>, message, 0)>>,
     origin |-> <<[elem |-> 0, attr |-> "N/A"]>>,
     success |-> FALSE]

\* the end of the try block: setErrors(newErrors) and the success test
Scanned(newErrors) ==
    [threw |-> FALSE,
     errors |-> [i \in 1..Len(newErrors) |-> newErrors[i].err],
     origin |-> [i \in 1..Len(newErrors) |->
                    [elem |-> newErrors[i].elem, attr |-> newErrors[i].attr]],
     success |-> Len(newErrors) = 0]

\* faulty variant of CheckDocument: the parse error is not looked at
CheckDocumentNoThrow(doc, lines, parseError) == Scanned(ScanDocument(doc, lines))

\* the try block from the parse error test on
CheckDocument(doc, lines, parseError) ==
    IF parseError # 0
    THEN Caught("Invalid SVG syntax: " \o textContent(doc, parseError))
    ELSE Scanned(ScanDocument(doc, lines))

ParseAndCheck(doc, lines) == CheckDocument(doc, lines, querySelector(doc, "parsererror"))

\* what one call validateSVG(svg) does: the error list it leaves, whether the
\* try block threw, whether it called setShowSuccessModal(true)
validateSVGResult(svg) == ParseAndCheck(parseFromString(ReplaceAmpQuote(svg)), Split(svg))

NoRun == [ran |-> FALSE, text |-> <<>>, threw |-> FALSE, raised |-> FALSE]
NoFirstRun == [ran |-> FALSE, text |-> <<>>, errors |-> <<>>]

\* faulty variant of SetState: the new errors are added to the displayed ones
SetStateAppending(svg, r) ==
    /\ errors' = errors \o r.errors
    /\ origin' = origin \o r.origin
    /\ showSuccessModal' = (IF r.success THEN TRUE ELSE showSuccessModal)
    /\ lastRun' = [ran |-> TRUE, text |-> svg, threw |-> r.threw, raised |-> r.success]
    /\ firstRun' = (IF firstRun.ran THEN firstRun
                    ELSE [ran |-> TRUE, text |-> svg, errors |-> errors \o r.errors])

\* the state changes of a call that did r
SetState(svg, r) ==
    /\ errors' = r.errors
    /\ origin' = r.origin
    /\ showSuccessModal' = (IF r.success THEN TRUE ELSE showSuccessModal)
    /\ lastRun' = [ran |-> TRUE, text |-> svg, threw |-> r.threw, raised |-> r.success]
    /\ firstRun' = (IF firstRun.ran THEN firstRun
                    ELSE [ran |-> TRUE, text |-> svg, errors |-> r.errors])

validateSVG(svg) == SetState(svg, validateSVGResult(svg))

-----------------------------------------------------------------------------
(* Input texts                                                             *)

MaxElems == 2      \* elements written inside the root of an uploaded document
MaxPending == 1    \* file reads in flight at once

\* ways to write the value of one attribute
Good == <<DQ, "a", DQ>>
Absent == <<>>
EmptyValue == <<DQ, DQ>>
Padded == <<DQ, SP, "a", SP, DQ>>
TrailingSpace == <<DQ, "a", SP, DQ>>
SingleQuoted == <<SQ, "a", SQ>>
SqAmpQuote == <<SQ, "a", AmpQuote, SQ>>
DqAmpQuote == <<DQ, "a", AmpQuote, DQ>>
EscapedAmpQuote == <<DQ, "&amp;", "quote", DQ>>
PaddedEscaped == <<DQ, SP, "&amp;", "quote", DQ>>

\* ways to end an element
Slash == <<SelfClose>>
SpaceSlash == <<SP, SelfClose>>
Closed(tag) == <<GT, CloseTok(tag)>>
ClosedNextLine(tag) == <<GT, NL, CloseTok(tag)>>

Written(tag, attrs, ws, end) == [tag |-> tag, attrs |-> attrs, ws |-> ws, end |-> end]

ElementForms ==
    { Written("rect", <<c, Good, Good>>, SP, Slash) :
          c \in {Good, EmptyValue, Padded, TrailingSpace, SingleQuoted, SqAmpQuote, DqAmpQuote,
                 EscapedAmpQuote, PaddedEscaped} }
    \cup
    { Written("rect", <<Absent, Absent, Absent>>, SP, Slash),
      Written("rect", <<Good, Absent, Padded>>, SP, Closed("rect")),
      Written("rect", <<Good, Good, Good>>, NL, Slash),
      Written("rect", <<Good, Good, Good>>, SP, SpaceSlash),
      Written("path", <<Absent, Absent, Absent>>, SP, Slash),
      Written("path", <<Good, Good, Good>>, SP, Slash),
      Written("path", <<Good, Good, EmptyValue>>, SP, ClosedNextLine("path")),
      Written("g", <<Absent, Absent, Absent>>, SP, Slash),
      Written("parsererror", <<Absent, Absent, Absent>>, SP, Slash) }

\* the tokens of one written element
ElementText(w) ==
    <<OpenTok(w.tag)>>
    \o Flatten([a \in 1..Len(attributes) |->
                   IF w.attrs[a] = Absent THEN <<>>
                   ELSE <<w.ws, AttrTok(attributes[a])>> \o w.attrs[a]])
    \o w.end

RootForms == { <<OpenTok("svg"), GT>>,
               <<OpenTok("svg"), SP, AttrTok("xmlns"), DQ, SvgNS, DQ, GT>> }

\* a document: the root's start tag, the elements (each on a line of its own
\* when sep is a line break), and the root's end tag unless it was forgotten
DocumentText(root, elems, sep, tail) ==
    root \o Flatten([e \in 1..Len(elems) |-> sep \o ElementText(elems[e])]) \o sep \o tail

SeqsUpTo(S, n) == UNION {[1..m -> S] : m \in 0..n}

Documents ==
    { DocumentText(root, elems, sep, tail) :
          root \in RootForms, elems \in SeqsUpTo(ElementForms, MaxElems),
          sep \in {<<>>, <<NL>>}, tail \in {<<CloseTok("svg")>>, <<>>} }

\* the texts of the interactive session
ValidText ==
    DocumentText(<<OpenTok("svg"), GT>>,
                 <<Written("rect", <<Good, Good, Good>>, SP, Slash)>>, <<NL>>, <<CloseTok("svg")>>)
MissingText ==
    DocumentText(<<OpenTok("svg"), GT>>,
                 <<Written("rect", <<Absent, Absent, Absent>>, SP, Slash)>>, <<NL>>, <<CloseTok("svg")>>)
BrokenText ==
    DocumentText(<<OpenTok("svg"), GT>>,
                 <<Written("rect", <<Absent, Absent, Absent>>, SP, Slash)>>, <<NL>>, <<>>)
EmptyText == <<>>

SessionTexts == {ValidText, MissingText, BrokenText}

-----------------------------------------------------------------------------
(* The component's handlers                                                *)

Init ==
    /\ errors = <<>>
    /\ svgContent = EmptyText
    /\ editorContent = EmptyText
    /\ showSuccessModal = FALSE
    /\ editorText = EmptyText
    /\ reading = <<>>
    /\ download = EmptyText
    /\ origin = <<>>
    /\ lastRun = NoRun
    /\ firstRun = NoFirstRun

NoFile == <<"no file">>

\* handleFileUpload: a chosen file starts a read, no file does nothing
handleFileUpload(file) ==
    /\ Len(reading) < MaxPending
    /\ reading' = (IF file # NoFile THEN Append(reading, file) ELSE reading)
    /\ UNCHANGED <<errors, svgContent, editorContent, showSuccessModal, editorText,
                   download, origin, lastRun, firstRun>>

\* the <Editor> shows its value prop when the prop changes
EditorShows(value) == IF value # editorContent THEN value ELSE editorText

\* reader.onload of the i-th read in flight
readerOnload(i) ==
    LET content == reading[i]
    IN  /\ reading' = SubSeq(reading, 1, i - 1) \o SubSeq(reading, i + 1, Len(reading))
        /\ svgContent' = content
        /\ editorContent' = content
        /\ editorText' = EditorShows(content)
        /\ validateSVG(content)
        /\ UNCHANGED download

\* handleEditorChange: the user changed the editor's text to value
handleEditorChange(value) ==
    /\ value # editorText
    /\ editorText' = value
    /\ IF value # EmptyText
       THEN /\ editorContent' = value
            /\ validateSVG(value)
            /\ UNCHANGED <<svgContent, reading, download>>
       ELSE UNCHANGED <<errors, svgContent, editorContent, showSuccessModal,
                        reading, download, origin, lastRun, firstRun>>

saveToFile ==
    /\ download' = editorContent
    /\ UNCHANGED <<errors, svgContent, editorContent, showSuccessModal, editorText,
                   reading, origin, lastRun, firstRun>>

closeModal ==
    /\ showSuccessModal' = FALSE
    /\ UNCHANGED <<errors, svgContent, editorContent, editorText, reading, download,
                   origin, lastRun, firstRun>>

Next ==
    \/ \E file \in SessionTexts \cup {EmptyText, NoFile} : handleFileUpload(file)
    \/ \E i \in 1..Len(reading) : readerOnload(i)
    \/ \E value \in SessionTexts \cup {EmptyText} : handleEditorChange(value)
    \/ saveToFile
    \/ closeModal

Spec == Init /\ [][Next]_vars

\* one validation of each document: a file is chosen, read and validated
InitUpload ==
    /\ errors = <<>>
    /\ svgContent = EmptyText
    /\ editorContent = EmptyText
    /\ showSuccessModal = FALSE
    /\ editorText = EmptyText
    /\ reading \in {<<d>> : d \in Documents}
    /\ download = EmptyText
    /\ origin = <<>>
    /\ lastRun = NoRun
    /\ firstRun = NoFirstRun

NextUpload == \E i \in 1..Len(reading) : readerOnload(i)

SpecUpload == InitUpload /\ [][NextUpload]_vars

-----------------------------------------------------------------------------
(* Properties                                                              *)

\* the document the last validateSVG call parsed
LastDocument == parseFromString(ReplaceAmpQuote(lastRun.text))

\* the last validateSVG call reached the scan of the graphic elements
ScanReached == lastRun.ran /\ ~lastRun.threw

TrackedElements(doc) ==
    {p \in 1..Len(doc) : doc[p].k = "start" /\ doc[p].tag \in Range(graphicTags)}

FindingsOf(p) == {i \in 1..Len(errors) : origin[i].elem = p}
FindingsFor(p, attr) == {i \in FindingsOf(p) : origin[i].attr = attr}

IndexIn(seq, x) == CHOOSE k \in 1..Len(seq) : seq[k] = x

Present(el, attr) == HasAttr(el.attrs, attr) /\ AttrValueOf(el.attrs, attr) # <<>>

\* C1 as stated: after a validation that reached the scan, the errors are in
\* the document order of their elements, whatever the elements' tags: an error
\* of an element that comes earlier in the document comes earlier in the list.
C1_DocumentOrder ==
    ScanReached =>
        \A i, j \in 1..Len(errors) : origin[i].elem < origin[j].elem => i < j

\* C1 amended: the errors are ordered by the position of their tag in
\* graphicTags first, then by the document order of the elements of that tag,
\* then by the order of the three attributes; each error carries its element's
\* tag.
C1_TagThenDocumentOrder ==
    ScanReached =>
        /\ LET doc == LastDocument
           IN  \A i \in 1..Len(errors) : errors[i].tag = doc[origin[i].elem].tag
        /\ \A i, j \in 1..Len(errors) :
              i < j =>
                LET ti == IndexIn(graphicTags, errors[i].tag)
                    tj == IndexIn(graphicTags, errors[j].tag)
                    ai == IndexIn(attributes, origin[i].attr)
                    aj == IndexIn(attributes, origin[j].attr)
                IN  \/ ti < tj
                    \/ ti = tj /\ origin[i].elem < origin[j].elem
                    \/ ti = tj /\ origin[i].elem = origin[j].elem /\ ai <= aj

\* two elements of different tags both have errors, and the errors of the one
\* that is later in the document come first
C1_Witness ==
    /\ ScanReached
    /\ \E i, j \in 1..Len(errors) :
          i < j /\ origin[i].elem > origin[j].elem /\ errors[i].tag # errors[j].tag

\* C2: after a validation of a text whose normalized form the parser rejects,
\* the error list is exactly the one synthetic error (tag "N/A", empty snippet,
\* line 0, the parser's error text in the message), the run did not raise the
\* success modal, and the exception was caught by validateSVG's own catch block.
C2_ParseError ==
    (lastRun.ran /\ ~WellFormed(ReplaceAmpQuote(lastRun.text))) =>
        /\ errors = << [tag |-> "N/A", snippet |-> <<>>, line |-> 0,
                        message |-> "Invalid SVG syntax: "
                                    \o ParseDocument(ReplaceAmpQuote(lastRun.text)).error] >>
        /\ \A i \in 1..Len(origin) : origin[i].elem = 0
        /\ ~lastRun.raised
        /\ lastRun.threw

\* a text with a graphic element was rejected by the parser
C2_Witness ==
    /\ lastRun.ran
    /\ ~WellFormed(ReplaceAmpQuote(lastRun.text))
    /\ \E i \in 1..Len(lastRun.text) : lastRun.text[i] = OpenTok("rect")
    /\ Len(errors) = 1 /\ errors[1].tag = "N/A"

\* C3: after a validation that reached the scan, every graphic element has,
\* for each required attribute that is absent or empty, exactly one error, the
\* "missing attribute" one; an element with none of the three attributes has
\* exactly three errors, consecutive and in the order of the attributes.
C3_MissingAttribute ==
    ScanReached =>
        LET doc == LastDocument
        IN  \A p \in TrackedElements(doc) :
            LET el == doc[p]
            IN  /\ \A a \in 1..Len(attributes) :
                      ~Present(el, attributes[a]) =>
                          \E i \in 1..Len(errors) :
                              /\ FindingsFor(p, attributes[a]) = {i}
                              /\ errors[i].tag = el.tag
                              /\ errors[i].message = MissingMessage(el.tag, attributes[a])
                /\ (\A a \in 1..Len(attributes) : ~HasAttr(el.attrs, attributes[a])) =>
                      \E i \in 1..Len(errors) :
                          /\ FindingsOf(p) = {i, i + 1, i + 2}
                          /\ \A a \in 1..Len(attributes) :
                                errors[i + a - 1].message = MissingMessage(el.tag, attributes[a])

\* an element without attributes got its three errors, and an element with an
\* empty attribute value got the missing-attribute error for it
ElementWithout(doc, p) == doc[p].attrs = <<>> /\ Cardinality(FindingsOf(p)) = 3

ElementWithEmpty(doc, p) ==
    \E a \in 1..Len(attributes) :
        /\ HasAttr(doc[p].attrs, attributes[a])
        /\ ~Present(doc[p], attributes[a])
        /\ Cardinality(FindingsFor(p, attributes[a])) = 1

C3_Witness ==
    /\ ScanReached
    /\ \E p \in TrackedElements(LastDocument) : ElementWithout(LastDocument, p)
    /\ \E p \in TrackedElements(LastDocument) : ElementWithEmpty(LastDocument, p)

\* the attribute attr of an element with tag tag is written, in the text, with
\* a quoted value that contains the characters &quote
WrittenWithAmpQuote(text, tag, attr) ==
    \E i, j, k \in 1..Len(text) :
        /\ i < j /\ j + 1 < k
        /\ text[i] = OpenTok(tag)
        /\ \A m \in (i + 1)..(j - 1) : ~IsOpen(text[m]) /\ ~IsClose(text[m])
        /\ text[j] = AttrTok(attr)
        /\ text[j + 1] \in {DQ, SQ}
        /\ text[k] = AmpQuote
        /\ \A m \in (j + 2)..k : text[m] # text[j + 1]

\* C4 as stated, for the validations that reached the scan: when a required
\* attribute of a graphic element is written in the text with a value that
\* contains &quote, the error list has the "contains invalid characters" error
\* for that tag and attribute.
C4_AmpQuoteReported ==
    ScanReached =>
        \A t \in 1..Len(graphicTags) : \A a \in 1..Len(attributes) :
            WrittenWithAmpQuote(lastRun.text, graphicTags[t], attributes[a]) =>
                \E i \in 1..Len(errors) :
                    errors[i].message = InvalidMessage(graphicTags[t], attributes[a])

\* the first or the last character of a non-empty value is a space
Untrimmed(v) == v[1] = SP \/ v[Len(v)] = SP

SpacesFindings(p, tag, attr) ==
    {i \in FindingsFor(p, attr) : errors[i].message = SpacesMessage(tag, attr)}

\* C5: after a validation that reached the scan, a graphic element whose three
\* required attributes are present and non-empty has, for each of them, exactly
\* one "leading or trailing spaces" error when the value starts or ends with a
\* space and none otherwise; when only data-categoryid is untrimmed and no
\* value contains &quote, the element has exactly one error, that one.
C5_Whitespace ==
    ScanReached =>
        LET doc == LastDocument
        IN  \A p \in TrackedElements(doc) :
            LET el == doc[p]
                val(a) == AttrValueOf(el.attrs, attributes[a])
            IN  (\A a \in 1..Len(attributes) : Present(el, attributes[a])) =>
                    /\ \A a \in 1..Len(attributes) :
                          Cardinality(SpacesFindings(p, el.tag, attributes[a]))
                              = (IF Untrimmed(val(a)) THEN 1 ELSE 0)
                    /\ ( /\ Untrimmed(val(1)) /\ ~Untrimmed(val(2)) /\ ~Untrimmed(val(3))
                         /\ \A a \in 1..Len(attributes) : ~TestAmpQuote(val(a)) )
                       => /\ Cardinality(FindingsOf(p)) = 1
                          /\ FindingsOf(p) = SpacesFindings(p, el.tag, attributes[1])

\* an element with only data-categoryid untrimmed got exactly one error, and
\* an element whose value only ends with a space got the error too
OnlyTrailingSpace(doc, p) ==
    /\ \A a \in 1..Len(attributes) : Present(doc[p], attributes[a])
    /\ AttrValueOf(doc[p].attrs, attributes[1]) = <<"a", SP>>
    /\ Cardinality(FindingsOf(p)) = 1
    /\ Cardinality(SpacesFindings(p, doc[p].tag, attributes[1])) = 1

C5_Witness ==
    /\ ScanReached
    /\ \E p \in TrackedElements(LastDocument) : OnlyTrailingSpace(LastDocument, p)

\* every graphic element has its three required attributes present, non-empty,
\* equal to their trimmed form and free of &quote
AllClean(doc) ==
    \A p \in TrackedElements(doc) : \A a \in 1..Len(attributes) :
        /\ Present(doc[p], attributes[a])
        /\ ~Untrimmed(AttrValueOf(doc[p].attrs, attributes[a]))
        /\ ~TestAmpQuote(AttrValueOf(doc[p].attrs, attributes[a]))

\* C6 as stated: after a validation of a well-formed text, the error list is
\* empty exactly when every graphic element of the document is clean; a
\* document without graphic elements leaves it empty.
C6_EmptyIffClean ==
    (lastRun.ran /\ WellFormed(lastRun.text)) =>
        (errors = <<>>) <=> AllClean(parseFromString(lastRun.text))

\* C6 for the texts the program itself accepts: the same equivalence whenever
\* the validation reached the scan (the normalized text is well-formed and has
\* no element named parsererror).
C6_EmptyIffCleanWhenScanned ==
    ScanReached => ((errors = <<>>) <=> AllClean(LastDocument))

FirstLineOf(snippet) == SubSeq(snippet, 1, NextNL(snippet, 1) - 1)

\* the 1-based numbers of the lines that contain part
MatchingLines(lines, part) == {k \in 1..Len(lines) : Includes(lines[k], part)}

Least(S) == CHOOSE x \in S : \A y \in S : x <= y

\* where an element was written: its tokens, the 1-based number of the line
\* its start tag begins on, whether it lies on one line, how often its tokens
\* occur in the text
SourceOf(text, el) == SubSeq(text, el.from, el.to)
SourceLine(text, el) == 1 + Cardinality({m \in 1..el.from : text[m] = NL})
OnOneLine(text, el) == \A m \in el.from..el.to : text[m] # NL
Occurrences(text, part) ==
    {k \in 0..(Len(text) - Len(part)) : SubSeq(text, k + 1, k + Len(part)) = part}
WrittenOnce(text, el) == Cardinality(Occurrences(text, SourceOf(text, el))) = 1

C7_ErrorsFollowEditor ==
    lastRun.ran =>
        /\ errors = validateSVGResult(editorText).errors
        /\ editorContent = editorText

\* C8: whenever the text just validated is the text of the session's first
\* validation, the error list is the one that first validation left, whatever
\* was uploaded, typed, validated or rejected in between.
C8_SameTextSameErrors ==
    (lastRun.ran /\ lastRun.text = firstRun.text) => errors = firstRun.errors

\* the first text was validated again after another document had been uploaded
\* and validated in between, and it has errors
C8_Witness ==
    /\ lastRun.ran
    /\ lastRun.text = firstRun.text
    /\ svgContent # EmptyText /\ svgContent # firstRun.text
    /\ errors # <<>>

\* C10 as stated: the success modal is shown only while the displayed error
\* list is empty.
C10_ModalOnlyWithoutErrors == showSuccessModal => errors = <<>>

====
